---- MODULE Spec2Model ----
(***************************************************************************)
(* A model of git_reporter.py (class GitReporter).                         *)
(*                                                                         *)
(* Units.  A commit timestamp is a whole number of seconds (git commit     *)
(* times have one-second resolution).  A session duration, which the code  *)
(* holds as the float  seconds / 3600,  is held here as that number of     *)
(* seconds; the comparisons of the code (gap > 3, max(duration, 0.5)) are  *)
(* made on the seconds, which orders them exactly as the floats are        *)
(* ordered, 10800 / 3600 and 1800 / 3600 being exact.  A value the code    *)
(* rounds to two decimals (round(x, 2)) is held as an integer number of    *)
(* hundredths of an hour.                                                  *)
(*                                                                         *)
(* Strings on which the code works character by character (author names,   *)
(* lines of the externals file, commit messages) are sequences of          *)
(* one-character strings.                                                  *)
(***************************************************************************)
EXTENDS Integers, Sequences, FiniteSets, TLC

VARIABLES
    report_type,    \* self.args.report_type
    update,         \* self.args.update
    externos,       \* self.externos
    report_data,    \* self.report_data: repository name -> entry
    dev_data,       \* run's local dev_data (None before the first repository)
    stats,          \* run's local stats
    session_lists,  \* calculate_stats' local sessions, per developer, at its return
    idx,            \* position of run's loop in repos (1-based)
    pc,             \* where the program is
    commits,        \* process_commits' local commits, at its return
    eligible,       \* history: repository name -> how many of its commits were
                    \* by authors outside the exclusion set
    raised,         \* history: repository name -> exceptions raised for it
    calls           \* history: the <<repo_name, stats>> of the calls made on
                    \* generate_report from outside run

vars == <<report_type, update, externos, report_data, dev_data, stats,
          session_lists, idx, pc, commits, eligible, raised, calls>>

\* the 'p90_session' field is the string 'N/A' or a number
NA == [kind |-> "N/A"]
Number(v) == [kind |-> "number", value |-> v]

\* Python values that are None or a dict: none tells which
EmptyDict == [a \in {} |-> {}]
None == [none |-> TRUE, items |-> EmptyDict]
Dict(f) == [none |-> FALSE, items |-> f]

FalsyNoneOnly(v) == v.none

\* `not v` for such a value: None and the empty dict are both false
Falsy(v) == v.none \/ v.items = EmptyDict

(***************************************************************************)
(* Bounds of the model.                                                    *)
(***************************************************************************)
MaxLen == 3         \* longest list of timestamps drawn from TimeGrid
MaxRamp == 11       \* longest ascending list built from StepGaps
MaxCommits == 2     \* longest list of commits drawn from CommitUniverse
MaxCalls == 2       \* most direct calls of generate_report on one GitReporter

(***************************************************************************)
(* Constants of the program.                                               *)
(***************************************************************************)
SecondsPerHour == 3600
GapThresholdHours == 3
MinSessionSeconds == SecondsPerHour \div 2      \* the 0.5 of max(duration, 0.5)
P90MinSessions == 10
Deciles == 10

Max(a, b) == IF a >= b THEN a ELSE b

(***************************************************************************)
(* sorted(data['hours']): insertion into an ascending list.                *)
(***************************************************************************)
RECURSIVE InsertSorted(_, _)
InsertSorted(s, x) ==
    IF s = <<>> THEN <<x>>
    ELSE IF x < Head(s) THEN <<x>> \o s
    ELSE <<Head(s)>> \o InsertSorted(Tail(s), x)

\* the timestamps left in the order the commits were discovered
discovery_order(s) == s

\* sorted(data['hours'])
RECURSIVE sorted(_)
sorted(s) ==
    IF s = <<>> THEN <<>>
    ELSE InsertSorted(sorted(SubSeq(s, 1, Len(s) - 1)), s[Len(s)])

(***************************************************************************)
(* The session loop of calculate_stats.                                    *)
(***************************************************************************)
GapReaches(prev, curr) == (curr - prev) >= GapThresholdHours * SecondsPerHour

\* time_diff > 3, with time_diff = (curr - prev).total_seconds() / 3600
GapExceeds(prev, curr) == (curr - prev) > GapThresholdHours * SecondsPerHour

SessionDurationNoFloor(session_start, last) == last - session_start

\* max(duration, 0.5), with duration = (last - session_start).total_seconds() / 3600
SessionDuration(session_start, last) == Max(last - session_start, MinSessionSeconds)

RECURSIVE SessionLoopKeepStart(_, _, _, _)
SessionLoopKeepStart(times, i, session_start, sessions) ==
    IF i > Len(times)
    THEN Append(sessions, SessionDuration(session_start, times[Len(times)]))
    ELSE IF GapExceeds(times[i - 1], times[i])
         THEN SessionLoopKeepStart(times, i + 1, session_start,
                  Append(sessions, SessionDuration(session_start, times[i - 1])))
         ELSE SessionLoopKeepStart(times, i + 1, session_start, sessions)

\* for i in range(1, len(times)): ...  followed by the closing of the last session
RECURSIVE SessionLoop(_, _, _, _)
SessionLoop(times, i, session_start, sessions) ==
    IF i > Len(times)
    THEN Append(sessions, SessionDuration(session_start, times[Len(times)]))
    ELSE IF GapExceeds(times[i - 1], times[i])
         THEN SessionLoop(times, i + 1, times[i],
                          Append(sessions, SessionDuration(session_start, times[i - 1])))
         ELSE SessionLoop(times, i + 1, session_start, sessions)

\* the list `sessions` calculate_stats builds for one developer's non-empty hours
Sessions(hours) ==
    LET times == sorted(hours)
    IN  SessionLoop(times, 2, times[1], <<>>)

(***************************************************************************)
(* round(x, 2) of x = num / den hours, in hundredths of an hour: the       *)
(* nearest hundredth, a tie going to the even one.  The arithmetic is      *)
(* exact: where the exact value lies midway between two hundredths and is  *)
(* no binary fraction (1.245, not 0.625) the float the code rounds lies    *)
(* slightly to one side of it and Python's result may be the odd           *)
(* neighbour.  This touches 'avg_session' and 'median_session' of a few    *)
(* inputs and no session list, session count or 'hours' of the model.      *)
(***************************************************************************)
Round2(num, den) ==
    LET n == 100 * num
        q == n \div den
        r == n % den
    IN  IF 2 * r < den THEN q
        ELSE IF 2 * r > den THEN q + 1
        ELSE IF q % 2 = 0 THEN q ELSE q + 1

RECURSIVE SumSeq(_)
SumSeq(s) == IF s = <<>> THEN 0 ELSE Head(s) + SumSeq(Tail(s))

TotalHoursWhole(sessions) == 100 * (SumSeq(sessions) \div SecondsPerHour)

\* round(sum(sessions), 2)
TotalHours(sessions) == Round2(SumSeq(sessions), SecondsPerHour)

\* round(statistics.mean(sessions), 2)
AvgSession(sessions) == Round2(SumSeq(sessions), SecondsPerHour * Len(sessions))

\* round(statistics.median(sessions), 2)
MedianSession(sessions) ==
    LET data == sorted(sessions)
        n == Len(data)
    IN  IF n % 2 = 1
        THEN Round2(data[n \div 2 + 1], SecondsPerHour)
        ELSE Round2(data[n \div 2] + data[n \div 2 + 1], 2 * SecondsPerHour)

\* statistics.quantiles(sessions, n=10)[-1], method 'exclusive', rounded
LastDecile(sessions) ==
    LET data == sorted(sessions)
        ld == Len(data)
        m == ld + 1
        i == Deciles - 1
        j0 == (i * m) \div Deciles
        j == IF j0 < 1 THEN 1 ELSE IF j0 > ld - 1 THEN ld - 1 ELSE j0
        delta == i * m - j * Deciles
    IN  Round2(data[j] * (Deciles - delta) + data[j + 1] * delta,
               Deciles * SecondsPerHour)

P90SessionAbove(sessions) ==
    IF Len(sessions) > P90MinSessions THEN Number(LastDecile(sessions)) ELSE NA

\* the 'p90_session' field
P90Session(sessions) ==
    IF Len(sessions) >= P90MinSessions THEN Number(LastDecile(sessions)) ELSE NA

\* dev_stats of one developer
DevStats(data) ==
    LET sessions == Sessions(data.hours)
    IN  [hours |-> TotalHours(sessions),
         tasks |-> data.tasks,
         sessions |-> Len(sessions),
         avg_session |-> AvgSession(sessions),
         median_session |-> MedianSession(sessions),
         p90_session |-> P90Session(sessions)]

\* `if not times: continue`
HasTimes(data) == sorted(data.hours) # <<>>

\* the sessions list of every developer calculate_stats does not skip
SessionsOf(dd) ==
    [dev \in {d \in DOMAIN dd : HasTimes(dd[d])} |-> Sessions(dd[dev].hours)]

\* calculate_stats(dev_data): developer -> dev_stats
calculate_stats(dd) ==
    [dev \in {d \in DOMAIN dd : HasTimes(dd[d])} |-> DevStats(dd[dev])]

(***************************************************************************)
(* Characters and strings.                                                 *)
(***************************************************************************)
UpperCase == <<"A","B","C","D","E","F","G","H","I","J","K","L","M",
               "N","O","P","Q","R","S","T","U","V","W","X","Y","Z">>
LowerCase == <<"a","b","c","d","e","f","g","h","i","j","k","l","m",
               "n","o","p","q","r","s","t","u","v","w","x","y","z">>
Digits == {"0","1","2","3","4","5","6","7","8","9"}
Whitespace == {" ", "\n", "\t"}

\* the lower-case letter of each upper-case letter
ToLower == [c \in {UpperCase[i] : i \in 1..26} |->
               LowerCase[CHOOSE i \in 1..26 : UpperCase[i] = c]]

LowerChar(c) == IF c \in DOMAIN ToLower THEN ToLower[c] ELSE c

NoFile == <<>>

\* str.lower()
lower(s) == [i \in 1..Len(s) |-> LowerChar(s[i])]

\* str.strip()
strip(s) ==
    LET keep == {i \in 1..Len(s) : s[i] \notin Whitespace}
    IN  IF keep = {} THEN <<>>
        ELSE SubSeq(s, CHOOSE i \in keep : \A k \in keep : i <= k,
                       CHOOSE i \in keep : \A k \in keep : i >= k)

\* load_externals(): the file is None when it does not exist, else its lines
load_externals(file) ==
    IF file = NoFile THEN {}
    ELSE {lower(strip(file[i])) : i \in {k \in 1..Len(file) : strip(file[k]) # <<>>}}

(***************************************************************************)
(* re.findall(self.task_pattern, message) for the default pattern          *)
(* [A-Za-z]{2,4}-\d{1,5}.                                                  *)
(***************************************************************************)
TaskMinLetters == 2
TaskMaxLetters == 4
TaskMaxDigits == 5

\* how many of the characters of msg from position i on satisfy Is, up to cap
RECURSIVE RunLength(_, _, _, _)
RunLength(msg, i, IsIn, cap) ==
    IF cap = 0 \/ i > Len(msg) \/ msg[i] \notin IsIn THEN 0
    ELSE 1 + RunLength(msg, i + 1, IsIn, cap - 1)

Letters ==
    {"A","B","C","D","E","F","G","H","I","J","K","L","M",
     "N","O","P","Q","R","S","T","U","V","W","X","Y","Z",
     "a","b","c","d","e","f","g","h","i","j","k","l","m",
     "n","o","p","q","r","s","t","u","v","w","x","y","z"}

\* the position after the match that starts at i, or 0 when none starts there:
\* the letters are taken greedily and given back one by one, and a shorter run
\* of letters is followed by a letter, never by the hyphen
MatchEnd(msg, i) ==
    LET l == RunLength(msg, i, Letters, TaskMaxLetters + 1)
        d == RunLength(msg, i + l + 1, Digits, TaskMaxDigits)
    IN  IF /\ l >= TaskMinLetters
           /\ l <= TaskMaxLetters
           /\ i + l <= Len(msg)
           /\ msg[i + l] = "-"
           /\ d >= 1
        THEN i + l + 1 + d
        ELSE 0

RECURSIVE FindAllFrom(_, _)
FindAllFrom(msg, i) ==
    IF i > Len(msg) THEN {}
    ELSE IF MatchEnd(msg, i) # 0
         THEN {SubSeq(msg, i, MatchEnd(msg, i) - 1)} \cup FindAllFrom(msg, MatchEnd(msg, i))
         ELSE FindAllFrom(msg, i + 1)

\* set(re.findall(self.task_pattern, commit.message))
FindTasks(msg) == FindAllFrom(msg, 1)

(***************************************************************************)
(* process_commits.                                                        *)
(***************************************************************************)
IsExternalExact(author, ext) == author \in ext

\* `author.lower() in self.externos`
IsExternal(author, ext) == lower(author) \in ext

\* commit.committed_datetime.replace(tzinfo=None): the wall-clock reading of the
\* commit's own time zone, the offset dropped without conversion
NaiveTime(dt) == dt.epoch + dt.utcoffset

\* dev_data[author], a defaultdict entry
Activity(dd, author) ==
    IF author \in DOMAIN dd THEN dd[author] ELSE [hours |-> <<>>, tasks |-> {}]

\* one turn of `for commit in commits:`
AddCommit(dd, commit, ext) ==
    IF IsExternal(commit.author, ext) THEN dd
    ELSE LET old == Activity(dd, commit.author)
             new == [hours |-> Append(old.hours, NaiveTime(commit.committed_datetime)),
                     tasks |-> old.tasks \cup FindTasks(commit.message)]
         IN  [a \in DOMAIN dd \cup {commit.author} |->
                 IF a = commit.author THEN new ELSE dd[a]]

RECURSIVE ScanCommits(_, _, _)
ScanCommits(dd, cs, ext) ==
    IF cs = <<>> THEN dd
    ELSE ScanCommits(AddCommit(dd, Head(cs), ext), Tail(cs), ext)

\* the value process_commits returns: None when anything raised inside its try,
\* otherwise the dev_data built from the commits the branches yielded
process_commits(cs, scan_raises, ext) ==
    IF scan_raises THEN None ELSE Dict(ScanCommits(EmptyDict, cs, ext))

(***************************************************************************)
(* generate_report.                                                        *)
(***************************************************************************)
RECURSIVE SumHours(_, _)
SumHours(st, devs) ==
    IF devs = {} THEN 0
    ELSE LET d == CHOOSE x \in devs : TRUE
         IN  st[d].hours + SumHours(st, devs \ {d})

SummaryTaskSum(st) ==
    [total_hours |-> SumHours(st, DOMAIN st),
     total_tasks |-> Cardinality({p \in (DOMAIN st) \X (UNION {st[x].tasks : x \in DOMAIN st}) :
                                     p[2] \in st[p[1]].tasks}),
     total_developers |-> Cardinality(DOMAIN st)]

\* the 'summary' entry
Summary(st) ==
    [total_hours |-> SumHours(st, DOMAIN st),
     total_tasks |-> Cardinality(UNION {st[d].tasks : d \in DOMAIN st}),
     total_developers |-> Cardinality(DOMAIN st)]

\* the 'tasks' entry: the loop over stats.items() is `pass`, task_data stays empty
TaskData(st) == EmptyDict

\* the value generate_report stores under report_data[repo_name][report_type]
ReportValue(rtype, st) ==
    CASE rtype = "summary" -> Summary(st)
      [] rtype = "detailed" -> st
      [] rtype = "tasks" -> TaskData(st)

\* self.report_data[repo_name], a defaultdict entry
RepoEntry(rd, repo_name) ==
    IF repo_name \in DOMAIN rd THEN rd[repo_name] ELSE EmptyDict

\* a generate_report whose summary keeps a running total of the hours over the
\* repositories reported so far
generate_report_running_total(rd, repo_name, st, rtype) ==
    LET old == RepoEntry(rd, repo_name)
        others == {r \in DOMAIN rd \ {repo_name} : "summary" \in DOMAIN rd[r]}
        carried == SumHours([r \in others |-> [hours |-> rd[r].summary.total_hours]], others)
        value == IF rtype = "summary"
                 THEN [Summary(st) EXCEPT !.total_hours = @ + carried]
                 ELSE ReportValue(rtype, st)
        new == [k \in DOMAIN old \cup {rtype} |-> IF k = rtype THEN value ELSE old[k]]
    IN  [r \in DOMAIN rd \cup {repo_name} |-> IF r = repo_name THEN new ELSE rd[r]]

\* a generate_report that updates the entry already stored under the mode with
\* the new value, key by key, instead of assigning the new value
generate_report_merging(rd, repo_name, st, rtype) ==
    LET old == RepoEntry(rd, repo_name)
        stored == IF rtype \in DOMAIN old THEN old[rtype] ELSE EmptyDict
        value == ReportValue(rtype, st)
        merged == [d \in DOMAIN stored \cup DOMAIN value |->
                      IF d \in DOMAIN value THEN value[d] ELSE stored[d]]
        new == [k \in DOMAIN old \cup {rtype} |-> IF k = rtype THEN merged ELSE old[k]]
    IN  [r \in DOMAIN rd \cup {repo_name} |-> IF r = repo_name THEN new ELSE rd[r]]

\* self.report_data after generate_report(repo_name, stats)
generate_report(rd, repo_name, st, rtype) ==
    LET old == RepoEntry(rd, repo_name)
        new == [k \in DOMAIN old \cup {rtype} |->
                   IF k = rtype THEN ReportValue(rtype, st) ELSE old[k]]
    IN  [r \in DOMAIN rd \cup {repo_name} |-> IF r = repo_name THEN new ELSE rd[r]]

(***************************************************************************)
(* The inputs.                                                             *)
(***************************************************************************)
JaneDoe == <<"J","a","n","e"," ","D","o","e">>
JaneDoe2 == <<"J","a","n","e"," ","D","o","e","2">>
Bob == <<"B","o","b">>

Hour == SecondsPerHour
At(h, m) == h * Hour + m * 60
Utc(t) == [epoch |-> t, utcoffset |-> 0]

MsgFix == <<"f","i","x">>
MsgAB1 == <<"A","B","-","1"," ","o","k">>
MsgBoth == <<"C","D","-","2","2",",","A","B","-","1">>
MsgCD22 == <<"x","C","D","-","2","2">>

Commit(a, dt, msg) == [author |-> a, committed_datetime |-> dt, message |-> msg]

\* the commits a repository's branches may yield, in any order and number
CommitUniverse ==
    { Commit(JaneDoe, Utc(At(9, 0)), MsgAB1),
      Commit(JaneDoe2, Utc(At(9, 0)), MsgBoth),
      Commit(Bob, Utc(At(10, 30)), MsgFix),
      Commit(Bob, [epoch |-> At(13, 0), utcoffset |-> Hour], MsgCD22) }

\* author A commits at 09:00, 10:30 and 14:00, author B commits once
EndToEndScenario ==
    << Commit(Bob, Utc(At(9, 0)), MsgAB1),
       Commit(Bob, Utc(At(10, 30)), MsgFix),
       Commit(Bob, Utc(At(14, 0)), MsgCD22),
       Commit(JaneDoe2, Utc(At(9, 0)), MsgAB1) >>

\* one author, two tasks, one session of ten hours
TenHoursScenario ==
    << Commit(Bob, Utc(At(8, 0)), MsgBoth),
       Commit(Bob, Utc(At(11, 0)), MsgFix),
       Commit(Bob, Utc(At(14, 0)), MsgFix),
       Commit(Bob, Utc(At(17, 0)), MsgFix),
       Commit(Bob, Utc(At(18, 0)), MsgFix) >>

SeqsUpTo(S, n) == UNION {[1..k -> S] : k \in 0..n}

CommitLists == SeqsUpTo(CommitUniverse, MaxCommits) \cup {EndToEndScenario, TenHoursScenario}

\* the externals file: absent, or its lines
ExternalsFiles ==
    { NoFile,
      << <<" ","J","a","n","e"," ","D","o","e"," ","\n">>, <<" ","\n">> >> }

\* the repositories run visits, by name, in order
repos == <<"alpha", "beta">>

\* timestamps of one developer: T, T+1h, T+3h, T+3h+1s, T+3.01h, T+5h
TimeGrid ==
    {0, Hour, GapThresholdHours * Hour, GapThresholdHours * Hour + 1,
     GapThresholdHours * Hour + 36, 5 * Hour}

\* gaps of 3.0 hours and of 3.01 hours
StepGaps == {GapThresholdHours * Hour, GapThresholdHours * Hour + 36}

RECURSIVE Ramp(_)
Ramp(gaps) ==
    IF gaps = <<>> THEN <<0>>
    ELSE LET r == Ramp(SubSeq(gaps, 1, Len(gaps) - 1))
         IN  Append(r, r[Len(r)] + gaps[Len(gaps)])

RampLists == {Ramp(g) : g \in SeqsUpTo(StepGaps, MaxRamp - 1)}

HoursLists == SeqsUpTo(TimeGrid, MaxLen) \cup RampLists

(***************************************************************************)
(* calculate_stats on one developer's activity.                            *)
(***************************************************************************)
InitStats ==
    /\ report_type = "detailed"
    /\ update = FALSE
    /\ externos = {}
    /\ report_data = EmptyDict
    /\ \E h \in HoursLists, t \in {{}, {<<"A","B","-","1">>}} :
          dev_data = Dict([d \in {Bob} |-> [hours |-> h, tasks |-> t]])
    /\ stats = EmptyDict
    /\ session_lists = EmptyDict
    /\ idx = 1
    /\ pc = "calculate_stats"
    /\ commits = <<>>
    /\ eligible = EmptyDict
    /\ raised = EmptyDict
    /\ calls = <<>>

CalculateStats ==
    /\ pc = "calculate_stats"
    /\ stats' = calculate_stats(dev_data.items)
    /\ session_lists' = SessionsOf(dev_data.items)
    /\ pc' = "stats_returned"
    /\ UNCHANGED <<report_type, update, externos, report_data, dev_data,
                   idx, commits, eligible, raised, calls>>

NextStats == CalculateStats

SpecStats == InitStats /\ [][NextStats]_vars

(***************************************************************************)
(* run.                                                                    *)
(***************************************************************************)
Init ==
    /\ report_type \in {"summary", "detailed", "tasks"}
    /\ update \in BOOLEAN
    /\ \E file \in ExternalsFiles : externos = load_externals(file)
    /\ report_data = EmptyDict
    /\ dev_data = None
    /\ stats = EmptyDict
    /\ session_lists = EmptyDict
    /\ idx = 1
    /\ pc = "loop"
    /\ commits = <<>>
    /\ eligible = EmptyDict
    /\ raised = EmptyDict
    /\ calls = <<>>

Note(h, repo_name, what) ==
    [r \in DOMAIN h \cup {repo_name} |->
        IF r = repo_name THEN (IF r \in DOMAIN h THEN h[r] ELSE {}) \cup what ELSE h[r]]

\* the commits of cs whose author is outside the exclusion set
EligibleCommits(cs, ext) == {i \in 1..Len(cs) : lower(cs[i].author) \notin ext}

\* what the body of update_repository's try does: completes, raises the
\* GitCommandError of a failed git command, or raises an exception of another
\* class (such as the AssertionError of a remote without a fetch refspec)
FetchOutcomes == {"ok", "GitCommandError", "OtherError"}

\* the fetch outcomes after which update_repository returns: its only handler
\* is `except GitCommandError`
UpdateReturns == {"ok", "GitCommandError"}

\* what update_repository raised inside, as a set of exception names
FetchRaised(fetch) == IF fetch = "ok" THEN {} ELSE {fetch}

\* Repo(repo_path) raises InvalidGitRepositoryError: `continue`
RunInvalidRepo ==
    /\ pc = "loop"
    /\ idx <= Len(repos)
    /\ raised' = Note(raised, repos[idx], {"InvalidGitRepositoryError"})
    /\ idx' = idx + 1
    /\ UNCHANGED <<report_type, update, externos, report_data, dev_data, stats,
                   session_lists, pc, commits, eligible, calls>>

\* update_repository lets through what is not a GitCommandError, and run catches
\* only InvalidGitRepositoryError: the exception leaves run
RunUpdateRaises ==
    /\ pc = "loop"
    /\ idx <= Len(repos)
    /\ update
    /\ \E fetch \in FetchOutcomes \ UpdateReturns :
          raised' = Note(raised, repos[idx], FetchRaised(fetch))
    /\ pc' = "raised"
    /\ UNCHANGED <<report_type, update, externos, report_data, dev_data, stats,
                   session_lists, idx, commits, eligible, calls>>

\* update_repository returns, process_commits catches an exception and returns
\* None: `if not dev_data: continue`
RunScanRaises ==
    /\ pc = "loop"
    /\ idx <= Len(repos)
    /\ \E fetch \in (IF update THEN UpdateReturns ELSE {"ok"}) :
          raised' = Note(raised, repos[idx], FetchRaised(fetch) \cup {"Exception"})
    /\ dev_data' = process_commits(<<>>, TRUE, externos)
    /\ Falsy(dev_data')
    /\ idx' = idx + 1
    /\ UNCHANGED <<report_type, update, externos, report_data, stats,
                   session_lists, pc, commits, eligible, calls>>

\* the loop body when process_commits returns its dev_data: `if not dev_data:
\* continue`, then calculate_stats and generate_report
RunRepo ==
    /\ pc = "loop"
    /\ idx <= Len(repos)
    /\ \E fetch \in (IF update THEN UpdateReturns ELSE {"ok"}), cs \in CommitLists :
          LET repo_name == repos[idx]
              dd == process_commits(cs, FALSE, externos)
              skip == Falsy(dd)
              st == calculate_stats(dd.items)
          IN  /\ raised' = Note(raised, repo_name, FetchRaised(fetch))
              /\ commits' = cs
              /\ eligible' = [r \in DOMAIN eligible \cup {repo_name} |->
                                 IF r = repo_name
                                 THEN Cardinality(EligibleCommits(cs, externos))
                                 ELSE eligible[r]]
              /\ dev_data' = dd
              /\ stats' = IF skip THEN stats ELSE st
              /\ session_lists' = IF skip THEN session_lists ELSE SessionsOf(dd.items)
              /\ report_data' = IF skip THEN report_data
                                ELSE generate_report(report_data, repo_name, st, report_type)
    /\ idx' = idx + 1
    /\ UNCHANGED <<report_type, update, externos, pc, calls>>

\* a finish step that renders whatever the loop left, an empty report included
RunFinishAlwaysRenders ==
    /\ pc = "loop"
    /\ idx > Len(repos)
    /\ pc' = "output_results"
    /\ UNCHANGED <<report_type, update, externos, report_data, dev_data, stats,
                   session_lists, idx, commits, eligible, raised, calls>>

\* `if self.report_data:` after the loop: output_results, or the message that no
\* valid repository was found
RunFinish ==
    /\ pc = "loop"
    /\ idx > Len(repos)
    /\ pc' = IF report_data # EmptyDict THEN "output_results" ELSE "no_valid_repos"
    /\ UNCHANGED <<report_type, update, externos, report_data, dev_data, stats,
                   session_lists, idx, commits, eligible, raised, calls>>

Next == RunInvalidRepo \/ RunUpdateRaises \/ RunScanRaises \/ RunRepo \/ RunFinish

Spec == Init /\ [][Next]_vars

(***************************************************************************)
(* generate_report called directly, any repository name any number of      *)
(* times, on one GitReporter.                                              *)
(***************************************************************************)
\* the stats passed: what calculate_stats returns for a few commit lists
StatsInputs ==
    {calculate_stats(ScanCommits(EmptyDict, cs, {})) :
        cs \in SeqsUpTo(CommitUniverse, 1) \cup {EndToEndScenario}}

InitReport ==
    /\ report_type \in {"summary", "detailed", "tasks"}
    /\ update = FALSE
    /\ externos = {}
    /\ report_data = EmptyDict
    /\ dev_data = None
    /\ stats = EmptyDict
    /\ session_lists = EmptyDict
    /\ idx = 1
    /\ pc = "generate_report"
    /\ commits = <<>>
    /\ eligible = EmptyDict
    /\ raised = EmptyDict
    /\ calls = <<>>

\* self.generate_report(repo_name, stats)
GenerateReport ==
    /\ pc = "generate_report"
    /\ Len(calls) < MaxCalls
    /\ \E i \in 1..Len(repos), st \in StatsInputs :
          /\ idx' = i
          /\ stats' = st
          /\ report_data' = generate_report(report_data, repos[i], st, report_type)
          /\ calls' = Append(calls, <<repos[i], st>>)
    /\ UNCHANGED <<report_type, update, externos, dev_data, session_lists, pc,
                   commits, eligible, raised>>

NextReport == GenerateReport

SpecReport == InitReport /\ [][NextReport]_vars

(***************************************************************************)
(* Properties of calculate_stats, under SpecStats.                         *)
(***************************************************************************)
StatsReturned == pc = "stats_returned"
TheHours == dev_data.items[Bob].hours

\* the ascending arrangement of h, by counting: its k-th element is the value
\* with fewer than k elements of h below it and at least k not above it
RefSorted(h) ==
    [k \in 1..Len(h) |->
        CHOOSE v \in {h[i] : i \in 1..Len(h)} :
            /\ Cardinality({i \in 1..Len(h) : h[i] < v}) < k
            /\ Cardinality({i \in 1..Len(h) : h[i] <= v}) >= k]

\* the k-th smallest element of a set of numbers
Kth(S, k) == CHOOSE x \in S : Cardinality({y \in S : y <= x}) = k

\* the reference rule: cut the sorted list between every consecutive pair more
\* than 3 hours apart; each run lasts max(last - first, 0.5 h)
RefSessions(h) ==
    LET s == RefSorted(h)
        n == Len(s)
        cuts == {i \in 1..(n - 1) : s[i + 1] - s[i] > 3 * Hour}
        starts == {1} \cup {i + 1 : i \in cuts}
        ends == cuts \cup {n}
    IN  [k \in 1..Cardinality(starts) |->
            LET d == s[Kth(ends, k)] - s[Kth(starts, k)]
            IN  IF 2 * d >= Hour THEN d ELSE Hour \div 2]

\* C1: for every non-empty list of one author's timestamps calculate_stats builds
\* exactly the session list of the reference rule, in chronological order; the
\* timestamps [T, T+1h, T+5h] give [1.0, 0.5]
C1_SessionsAreReference ==
    (StatsReturned /\ TheHours # <<>>) =>
        /\ session_lists[Bob] = RefSessions(TheHours)
        /\ stats[Bob].sessions = Len(RefSessions(TheHours))
        /\ (TheHours = <<0, Hour, 5 * Hour>> =>
                session_lists[Bob] = <<Hour, Hour \div 2>>)

C1_Witness ==
    /\ StatsReturned
    /\ TheHours = <<0, Hour, 5 * Hour>>
    /\ session_lists[Bob] = <<Hour, Hour \div 2>>

\* how many sessions the first k of the sorted timestamps make
SessionCount(s, k) == Len(Sessions(SubSeq(s, 1, k)))

\* C2: the split test is strict: consecutive sorted timestamps exactly 3.0 hours
\* apart stay in one session (the second adds no session to those of the
\* timestamps before it), and consecutive timestamps more than 3 hours apart are
\* in different sessions (the second opens one more)
C2_StrictSplit ==
    (StatsReturned /\ TheHours # <<>>) =>
        LET s == RefSorted(TheHours)
        IN  /\ SessionCount(s, Len(s)) = Len(session_lists[Bob])
            /\ \A i \in 1..(Len(s) - 1) :
                  /\ (s[i + 1] - s[i] = 3 * Hour) =>
                        SessionCount(s, i + 1) = SessionCount(s, i)
                  /\ (s[i + 1] - s[i] > 3 * Hour) =>
                        SessionCount(s, i + 1) = SessionCount(s, i) + 1

\* timestamps exactly 3.0 hours apart in one session, 3.01 hours apart in two
C2_Witness ==
    /\ StatsReturned
    /\ TheHours = <<0, 3 * Hour, 6 * Hour + 36>>
    /\ session_lists[Bob] = <<3 * Hour, Hour \div 2>>

\* C3: an author with exactly one commit timestamp has session count 1 and a
\* total of exactly 0.5 hours, the one session lasting exactly 0.5 hours
C3_SingleTimestamp ==
    (StatsReturned /\ Len(TheHours) = 1) =>
        /\ stats[Bob].sessions = 1
        /\ stats[Bob].hours = 50
        /\ session_lists[Bob] = <<Hour \div 2>>

C3_Witness ==
    /\ StatsReturned
    /\ TheHours = <<5 * Hour>>
    /\ stats[Bob].sessions = 1
    /\ stats[Bob].hours = 50

\* C4: with N >= 1 timestamps the session count is between 1 and N, every
\* session lasts at least 0.5 hours and the total is at least 0.5 hours times
\* the session count; an author with no timestamp gets no stats entry
C4_SessionBounds ==
    StatsReturned =>
        IF TheHours = <<>>
        THEN Bob \notin DOMAIN stats
        ELSE /\ Bob \in DOMAIN stats
             /\ stats[Bob].sessions >= 1
             /\ stats[Bob].sessions <= Len(TheHours)
             /\ stats[Bob].sessions = Len(session_lists[Bob])
             /\ \A k \in 1..Len(session_lists[Bob]) : 2 * session_lists[Bob][k] >= Hour
             /\ stats[Bob].hours >= 50 * stats[Bob].sessions

\* several timestamps, fewer sessions than timestamps, one of them at the floor
C4_Witness ==
    /\ StatsReturned
    /\ Len(TheHours) = 3
    /\ stats[Bob].sessions = 2
    /\ \E k \in 1..2 : 2 * session_lists[Bob][k] = Hour

\* C5: the 'p90_session' field is the 'N/A' sentinel when the session count is
\* between 1 and 9 and a number when it is 10 or more; the sentinel is not the number zero
C5_PercentileSentinel ==
    (StatsReturned /\ TheHours # <<>>) =>
        /\ (stats[Bob].sessions \in 1..9 =>
                /\ stats[Bob].p90_session = NA
                /\ stats[Bob].p90_session # Number(0))
        /\ (stats[Bob].sessions >= 10 =>
                /\ stats[Bob].p90_session.kind = "number"
                /\ stats[Bob].p90_session.value \in Nat)

C5_Witness ==
    /\ StatsReturned
    /\ stats[Bob].sessions = 10
    /\ stats[Bob].p90_session.kind = "number"

(***************************************************************************)
(* Properties of run, under Spec.                                          *)
(***************************************************************************)
\* the loop body just executed stored a report: stats, dev_data and commits are
\* those of that repository
JustReported == idx > 1 /\ repos[idx - 1] \in DOMAIN report_data /\ ~Falsy(dev_data)
TheRepo == repos[idx - 1]
TheEntry == report_data[TheRepo][report_type]

\* C6: in tasks mode, after generate_report, every task of every author has the
\* author's full total hours in its accumulated hours and the author in its
\* developer set
C6_TaskAttribution ==
    (JustReported /\ report_type = "tasks") =>
        \A dev \in DOMAIN stats : \A task \in stats[dev].tasks :
            /\ task \in DOMAIN TheEntry
            /\ TheEntry[task].hours >= stats[dev].hours
            /\ dev \in TheEntry[task].developers

HoursOf(a) == IF a \in DOMAIN stats THEN stats[a].hours ELSE 0

\* the tasks named in the messages of the commits of cs that are numbered in ix
TasksOfCommits(cs, ix) == UNION {FindTasks(cs[i].message) : i \in ix}

\* C7: in summary mode the stored entry has total_hours equal to the sum of the
\* authors' total hours, total_tasks equal to the size of the union of the
\* authors' task sets (a task of several authors counted once) and
\* total_developers equal to the number of authors with stats; author A at
\* 09:00, 10:30, 14:00 and author B with one commit give 2 developers, 2.5 hours
C7_SummaryEntry ==
    (JustReported /\ report_type = "summary") =>
        /\ DOMAIN stats \subseteq {JaneDoe, JaneDoe2, Bob}
        /\ TheEntry.total_hours = HoursOf(JaneDoe) + HoursOf(JaneDoe2) + HoursOf(Bob)
        /\ TheEntry.total_tasks =
              Cardinality({t \in TasksOfCommits(commits, 1..Len(commits)) :
                              \E d \in DOMAIN stats : t \in stats[d].tasks})
        /\ TheEntry.total_developers = Cardinality(DOMAIN stats)
        /\ (commits = EndToEndScenario =>
                /\ TheEntry.total_developers = 2
                /\ TheEntry.total_hours = 250)

C7_Witness ==
    /\ JustReported
    /\ report_type = "summary"
    /\ commits = EndToEndScenario
    /\ stats[Bob].hours = 200
    /\ stats[JaneDoe2].hours = 50
    /\ TheEntry = [total_hours |-> 250, total_tasks |-> 2, total_developers |-> 2]

LowerJaneDoe == <<"j","a","n","e"," ","d","o","e">>
AuthorsOf(cs) == {cs[i].author : i \in 1..Len(cs)}
CommitsBy(cs, a) == {i \in 1..Len(cs) : cs[i].author = a}

\* C8: a commit adds to its author's activity if and only if the lower-cased
\* author name is not in the exclusion set: 'Jane Doe' is excluded by the entry
\* 'jane doe', 'Jane Doe2' is not; an excluded author is no key of the activity,
\* the stats or the report
C8_ExclusionExact ==
    (~dev_data.none /\ idx > 1) =>
        /\ \A a \in AuthorsOf(commits) :
              IF lower(a) \in externos
              THEN a \notin DOMAIN dev_data.items
              ELSE /\ a \in DOMAIN dev_data.items
                   /\ Len(dev_data.items[a].hours) = Cardinality(CommitsBy(commits, a))
                   /\ dev_data.items[a].tasks = TasksOfCommits(commits, CommitsBy(commits, a))
        /\ DOMAIN dev_data.items \subseteq AuthorsOf(commits)
        /\ (LowerJaneDoe \in externos =>
                /\ JaneDoe \notin DOMAIN dev_data.items
                /\ JaneDoe \notin DOMAIN stats
                /\ \A r \in DOMAIN report_data :
                      report_type = "detailed" => JaneDoe \notin DOMAIN report_data[r].detailed
                /\ (JaneDoe2 \in AuthorsOf(commits) => JaneDoe2 \in DOMAIN dev_data.items))

C8_Witness ==
    /\ JustReported
    /\ LowerJaneDoe \in externos
    /\ {JaneDoe, JaneDoe2} \subseteq AuthorsOf(commits)
    /\ DOMAIN dev_data.items = {JaneDoe2}
    /\ DOMAIN stats = {JaneDoe2}

\* C9: a repository whose processing raises at any stage is skipped and has no
\* entry in the report, and run never aborts: the later repositories are
\* processed and the output step is reached
C9_RaisingRepoSkipped ==
    /\ \A r \in DOMAIN raised : raised[r] # {} => r \notin DOMAIN report_data
    /\ pc # "raised"

\* C10: a repository with no eligible commit gets no key in the report, in any
\* mode; every repository in the report had at least one eligible commit and at
\* least one author with stats
C10_NoEmptyEntry ==
    /\ \A r \in DOMAIN eligible : eligible[r] = 0 => r \notin DOMAIN report_data
    /\ \A r \in DOMAIN report_data :
          /\ r \in DOMAIN eligible
          /\ eligible[r] >= 1
          /\ DOMAIN report_data[r] = {report_type}
          /\ (report_type = "summary" => report_data[r].summary.total_developers >= 1)
          /\ (report_type = "detailed" => DOMAIN report_data[r].detailed # {})
    /\ (JustReported => DOMAIN stats # {})

\* the first repository has commits, all by an excluded author, and no entry; the
\* second has an entry
C10_Witness ==
    /\ idx > Len(repos)
    /\ DOMAIN eligible = {"alpha", "beta"}
    /\ eligible["alpha"] = 0
    /\ "alpha" \notin DOMAIN report_data
    /\ "beta" \in DOMAIN report_data
    /\ eligible["beta"] >= 1

(***************************************************************************)
(* Properties of the end of run, under Spec.                               *)
(***************************************************************************)
\* the repositories for which process_commits recorded at least one commit
ProducedData == {r \in DOMAIN eligible : eligible[r] >= 1}

\* C11: run reaches output_results only after the loop has gone through every
\* repository and at least one of them produced a report entry, and reaches the
\* message that no valid repository was found only after the loop has gone
\* through every repository and none produced data, the report being empty then;
\* while the loop is still running neither has happened
C11_RenderIffReported ==
    /\ (pc = "output_results" =>
            /\ idx > Len(repos)
            /\ report_data # EmptyDict
            /\ ProducedData # {}
            /\ DOMAIN report_data = ProducedData)
    /\ (pc = "no_valid_repos" =>
            /\ idx > Len(repos)
            /\ report_data = EmptyDict
            /\ ProducedData = {})
    /\ (idx <= Len(repos) => pc \in {"loop", "raised"})

\* output_results is reached with one repository skipped for want of eligible
\* commits and the other in the report
C11_Witness ==
    /\ pc = "output_results"
    /\ DOMAIN eligible = {"alpha", "beta"}
    /\ eligible["alpha"] = 0
    /\ DOMAIN report_data = {"beta"}

(***************************************************************************)
(* The pipeline run on the same commits again, under Spec.                 *)
(***************************************************************************)
\* a step of the loop that scans, for the repository after one that was scanned,
\* the same commits again: both repositories went through process_commits
\* under the same exclusion set, task pattern and report mode
ScansSameCommitsAgain ==
    /\ idx >= 2
    /\ idx' = idx + 1
    /\ repos[idx - 1] \in DOMAIN eligible
    /\ repos[idx] \in DOMAIN eligible'
    /\ commits' = commits

LastCallFor(r) ==
    CHOOSE i \in DOMAIN calls :
        /\ calls[i][1] = r
        /\ \A j \in DOMAIN calls : calls[j][1] = r => j <= i

\* the entry a first and only call generate_report(r, st) leaves for r
EntryAlone(r, st) == generate_report(EmptyDict, r, st, report_type)[r]

\* C13: whatever calls preceded it, the entry of a repository name is the one
\* that its last generate_report call would have produced alone, with nothing of
\* the stats of its earlier calls in it, and a call for one name leaves the entry
\* of every other name as that name's own last call made it
C13_SecondCallReplaces ==
    /\ DOMAIN report_data = {calls[i][1] : i \in DOMAIN calls}
    /\ \A r \in DOMAIN report_data :
          report_data[r] = EntryAlone(r, calls[LastCallFor(r)][2])

\* generate_report was called for alpha with the stats of one author and then
\* again with the stats of another author only, in detailed mode, and the entry
\* has the second author alone
C13_Witness ==
    /\ report_type = "detailed"
    /\ Len(calls) = 2
    /\ calls[1][1] = "alpha"
    /\ calls[2][1] = "alpha"
    /\ DOMAIN calls[1][2] = {JaneDoe}
    /\ DOMAIN calls[2][2] = {Bob}
    /\ DOMAIN report_data = {"alpha"}
    /\ DOMAIN report_data["alpha"].detailed = {Bob}

(***************************************************************************)
(* calculate_stats and the order and repetition of timestamps, under       *)
(* SpecStats.                                                              *)
(***************************************************************************)
\* the distinct timestamps of a list, in ascending order
DistinctAscending(h) ==
    LET S == {h[i] : i \in DOMAIN h}
    IN  [k \in 1..Cardinality(S) |-> Kth(S, k)]

\* C14: the session list of an author, and with it the hours, the session count
\* and the average, median and P90 of the stats, are those of the ascending list
\* of the author's distinct timestamps: the order in which the timestamps were
\* appended and the number of times each was appended change nothing
C14_DistinctTimestampsOnly ==
    (StatsReturned /\ Bob \in DOMAIN stats) =>
        LET canonical == DistinctAscending(TheHours)
            ref == DevStats([hours |-> canonical, tasks |-> dev_data.items[Bob].tasks])
        IN  /\ session_lists[Bob] = RefSessions(canonical)
            /\ session_lists[Bob] = Sessions(canonical)
            /\ stats[Bob] = ref

\* the timestamps 1:00, 0:00, 1:00, out of order and with a repetition, give the
\* one session of an hour that 0:00, 1:00 give
C14_Witness ==
    /\ StatsReturned
    /\ TheHours = <<Hour, 0, Hour>>
    /\ DistinctAscending(TheHours) = <<0, Hour>>
    /\ session_lists[Bob] = <<Hour>>
    /\ stats[Bob].hours = 100
    /\ stats[Bob].sessions = 1

====
